---- MODULE Spec2Model ----
(***************************************************************************)
(* A model of invoice_extractor.py: the per-document extraction pass       *)
(* (extract_invoice_data), the vendor-key sanitizer (sanitize_vendor_name) *)
(* and the batch driver (process_invoices).                                *)
(*                                                                         *)
(* Representation.                                                         *)
(*  - An optional value is a tuple: None is <<>>, a string s is <<s>>.     *)
(*    A string held as a sequence of characters is None when it is <<>>    *)
(*    (the code tests such values only by truthiness, where None and ''    *)
(*    agree).                                                              *)
(*  - An amount (a Python float) is an exact rational <<num, den>> in      *)
(*    euros, den > 0, kept in lowest terms; None is <<>>.  Binary floating *)
(*    point rounding is not modelled: arithmetic is exact.                 *)
(*  - notes (a Python string built by += of fragments) is the sequence of  *)
(*    its fragments; an assignment with = replaces the whole sequence.     *)
(*  - A string that the code inspects character by character (the vendor   *)
(*    name in sanitize_vendor_name, the VAT rate "19%") is a sequence of   *)
(*    one-character strings.                                               *)
(***************************************************************************)
EXTENDS Integers, Sequences, FiniteSets, TLC

VARIABLES
    \* extract_invoice_data
    pc,          \* position inside extract_invoice_data
    data,        \* the dict built by extract_invoice_data
    amounts,     \* the local list `amounts` after sorted(set(...))
    raised_at,   \* the step whose exception the handler caught ("none" if none)
    \* sanitize_vendor_name
    s_pc,        \* "call" before the call, "done" after it
    vendor_name, \* the argument
    sanitized,   \* the value returned
    \* process_invoices
    b_pc,                \* position inside process_invoices
    new_folder,          \* the names of the PDFs in ./new
    sheet,               \* the filenames recorded in column A of tax_records.xlsx
    archive,             \* the files under ./archive: <<vendor folder, name, suffix counter>>
    pdf_files,           \* the list globbed at line 472
    existing_filenames,  \* the set read at line 481
    pos,                 \* index into pdf_files of the loop at line 487
    b_vendor,            \* data['vendor'] of the record extracted for pdf_files[pos]
    processed_count,
    skipped_count,
    error_count

evars == <<pc, data, amounts, raised_at>>

svars == <<s_pc, vendor_name, sanitized>>

bvars == <<b_pc, new_folder, sheet, archive, pdf_files, existing_filenames, pos,
           b_vendor, processed_count, skipped_count, error_count>>

vars == <<evars, svars, bvars>>

(***************************************************************************)
(* Bounds of the model.                                                    *)
(***************************************************************************)
\* The number of currency matches the text of one document holds.
MaxMatches == 4
\* The number of date matches the text of one document holds.
MaxDates == 2
\* The length of a vendor name handed to sanitize_vendor_name.
MaxLen == 3
\* The number of distinct PDF filenames.
MaxDocs == 3

(***************************************************************************)
(* Optional values and exact rational arithmetic.                          *)
(***************************************************************************)
None == <<>>

Some(x) == <<x>>

RECURSIVE GCD(_, _)
GCD(a, b) == IF b = 0 THEN a ELSE GCD(b, a % b)

Abs(i) == IF i < 0 THEN -i ELSE i

\* The rational n/d (d # 0) in lowest terms with a positive denominator.
Rat(n, d) ==
    LET g == GCD(Abs(n), Abs(d))
        s == IF d < 0 THEN -1 ELSE 1
    IN  <<(s * n) \div g, (s * d) \div g>>

RatAdd(a, b) == Rat(a[1] * b[2] + b[1] * a[2], a[2] * b[2])

RatSub(a, b) == Rat(a[1] * b[2] - b[1] * a[2], a[2] * b[2])

RatMul(a, b) == Rat(a[1] * b[1], a[2] * b[2])

RatDiv(a, b) == Rat(a[1] * b[2], a[2] * b[1])

RatAbs(a) == <<Abs(a[1]), a[2]>>

RatLt(a, b) == a[1] * b[2] < b[1] * a[2]

RatLe(a, b) == a[1] * b[2] <= b[1] * a[2]

\* Python truthiness of an optional float: None and 0.0 are false.
TruthyAmount(a) == a # None /\ a[1] # 0

(***************************************************************************)
(* The severity tiers of extraction_status.                                *)
(***************************************************************************)
Rank(status) ==
    CASE status = "OK" -> 0
      [] status = "UNCERTAIN" -> 1
      [] status = "MANUAL_REVIEW_NEEDED" -> 2

(***************************************************************************)
(* extract_invoice_data: the record it starts from.                        *)
(***************************************************************************)
InitialData ==
    [ filename          |-> "invoice.pdf",
      date              |-> None,
      vendor            |-> None,
      invoice_number    |-> None,
      net               |-> None,
      vat_rate          |-> None,
      vat_amount        |-> None,
      gross             |-> None,
      category          |-> "",
      extraction_status |-> "OK",
      notes             |-> <<>> ]

(***************************************************************************)
(* What the matchers can return on a text (the inputs of each step).       *)
(***************************************************************************)
UnknownVendor == <<"U", "n", "k", "n", "o", "w", "n", " ", "V", "e", "n", "d", "o", "r">>

\* extract_vendor_name(text): None, or a stripped line of more than 3 characters.
VendorResults == {None, <<"M", "ü", "l", "l", "e", "r", " ", "&", " ", "S", "ö", "h", "n", "e", " ", "G", "m", "b", "H">>}

\* PATTERNS['invoice_number'].search(text): no match, or group(1).strip().
InvoiceMatches == {None, Some("RE-2024-001")}

\* parse_german_date(date_str) for one date match: None, or DD.MM.YYYY.
DateParses == {None, Some("05.03.2024")}

\* PATTERNS['vat_rate'].search(text): no match, or group(1), one or two digits.
VatRateMatches == {None, Some(<<"0">>), Some(<<"7">>), Some(<<"0", "7">>), Some(<<"1", "9">>)}

\* parse_german_currency(match.group(1)) for one currency match: None (float()
\* refused the string), 0.00, or a positive amount.
CurrencyParses ==
    {None, Rat(0, 1), Rat(19, 1), Rat(50, 1), Rat(100, 1), Rat(237, 2), Rat(119, 1)}

RECURSIVE SeqsUpTo(_, _)
\* All sequences over S of length at most n.
SeqsUpTo(S, n) ==
    IF n = 0 THEN {<<>>}
    ELSE LET shorter == SeqsUpTo(S, n - 1)
         IN  shorter \cup {Append(s, x) : s \in {t \in shorter : Len(t) = n - 1}, x \in S}

(***************************************************************************)
(* The steps of extract_invoice_data, each as a function of the record.    *)
(***************************************************************************)
\* Lines 222-225: the text is empty or blank.
NoTextRecord(d) ==
    [d EXCEPT !.extraction_status = "MANUAL_REVIEW_NEEDED",
              !.notes = <<"No text extracted from PDF">>]

\* A vendor step that records only a vendor it found.
WithVendorNoSentinel(d, vendor) ==
    IF vendor # None
    THEN [d EXCEPT !.vendor = vendor]
    ELSE [d EXCEPT !.extraction_status = "UNCERTAIN",
                   !.notes = Append(@, "Vendor name unclear; ")]

\* Lines 228-234.
WithVendor(d, vendor) ==
    IF vendor # None
    THEN [d EXCEPT !.vendor = vendor]
    ELSE [d EXCEPT !.vendor = UnknownVendor,
                   !.extraction_status = "UNCERTAIN",
                   !.notes = Append(@, "Vendor name unclear; ")]

\* An invoice-number step that marks the record OK when the number is found.
WithInvoiceNumberResetting(d, inv_match) ==
    IF inv_match # None
    THEN [d EXCEPT !.invoice_number = inv_match, !.extraction_status = "OK"]
    ELSE [d EXCEPT !.extraction_status = "UNCERTAIN",
                   !.notes = Append(@, "Invoice number not found; ")]

\* Lines 237-242.
WithInvoiceNumber(d, inv_match) ==
    IF inv_match # None
    THEN [d EXCEPT !.invoice_number = inv_match]
    ELSE [d EXCEPT !.extraction_status = "UNCERTAIN",
                   !.notes = Append(@, "Invoice number not found; ")]

RECURSIVE FirstParsed(_, _)
\* Lines 246-250: the first date match that parses, from index i on.
FirstParsed(dates, i) ==
    IF i > Len(dates) THEN None
    ELSE IF dates[i] # None THEN dates[i]
    ELSE FirstParsed(dates, i + 1)

\* Lines 245-254.
WithDate(d, dates) ==
    LET parsed == FirstParsed(dates, 1)
    IN  IF parsed # None
        THEN [d EXCEPT !.date = parsed]
        ELSE [d EXCEPT !.extraction_status = "UNCERTAIN",
                       !.notes = Append(@, "Date not found; ")]

\* Lines 257-263: f"{group(1)}%", or the default '19%'.
WithVatRate(d, vat_rate_match) ==
    IF vat_rate_match # None
    THEN [d EXCEPT !.vat_rate = Append(vat_rate_match[1], "%")]
    ELSE [d EXCEPT !.vat_rate = <<"1", "9", "%">>,
                   !.notes = Append(@, "VAT rate assumed 19%; ")]

(***************************************************************************)
(* Lines 265-273: the currency scan.                                       *)
(***************************************************************************)
\* Lines 269-270: `if amount and amount > 0`.
IsPositiveAmount(amount) == TruthyAmount(amount) /\ amount[1] > 0

RECURSIVE SortedSeq(_)
\* sorted(S) for a finite set S of amounts: ascending.
SortedSeq(S) ==
    IF S = {} THEN <<>>
    ELSE LET least == CHOOSE x \in S : \A y \in S : RatLe(x, y)
         IN  <<least>> \o SortedSeq(S \ {least})

\* Lines 266-273: the positive parses, de-duplicated and sorted.
ScanAmounts(parses) ==
    SortedSeq({parses[i] : i \in {j \in 1..Len(parses) : IsPositiveAmount(parses[j])}})

(***************************************************************************)
(* Lines 275-309: reconciliation.                                          *)
(***************************************************************************)
DigitValue(c) ==
    CASE c = "0" -> 0 [] c = "1" -> 1 [] c = "2" -> 2 [] c = "3" -> 3 [] c = "4" -> 4
      [] c = "5" -> 5 [] c = "6" -> 6 [] c = "7" -> 7 [] c = "8" -> 8 [] c = "9" -> 9

RECURSIVE ParseInt(_, _)
\* int(s) of a digit string s, most significant digit first; acc is the value so far.
ParseInt(s, acc) ==
    IF s = <<>> THEN acc
    ELSE ParseInt(Tail(s), 10 * acc + DigitValue(Head(s)))

RECURSIVE WithoutPercent(_)
\* s.replace('%', '')
WithoutPercent(s) ==
    IF s = <<>> THEN <<>>
    ELSE (IF Head(s) = "%" THEN <<>> ELSE <<Head(s)>>) \o WithoutPercent(Tail(s))

\* Lines 280-282 and 303-305: vat_rate_num.
VatRateNum(d) ==
    IF d.vat_rate # <<>> THEN ParseInt(WithoutPercent(d.vat_rate), 0) ELSE 19

\* Line 285: expected_net = gross / (1 + vat_rate_num / 100).
ExpectedNet(gross, vat_rate_num) ==
    RatDiv(gross, RatAdd(Rat(1, 1), Rat(vat_rate_num, 100)))

\* A net computed on the gross instead of by division.
ComputedNetOnGross(gross, vat_rate_num) ==
    RatMul(gross, RatSub(Rat(1, 1), Rat(vat_rate_num, 100)))

\* Line 306: net = gross / (1 + vat_rate_num / 100).
ComputedNet(gross, vat_rate_num) ==
    RatDiv(gross, RatAdd(Rat(1, 1), Rat(vat_rate_num, 100)))

\* A VAT amount truncated to whole euros.
VatAmountWholeEuros(gross, net) ==
    LET diff == RatSub(gross, net)
    IN  Rat(diff[1] \div diff[2], 1)

\* Lines 291, 298, 307: vat_amount = gross - net.
VatAmount(gross, net) == RatSub(gross, net)

\* Line 289: abs(amt - expected_net) < expected_net * 0.1.
WithinTenPercent(amt, expected_net) ==
    RatLt(RatAbs(RatSub(amt, expected_net)), RatMul(expected_net, Rat(1, 10)))

\* The index of the candidate closest to expected_net among those within 10%.
ClosestNetIndex(amts, expected_net) ==
    LET ok == {i \in 1..Len(amts) : WithinTenPercent(amts[i], expected_net)}
        dist(i) == RatAbs(RatSub(amts[i], expected_net))
    IN  IF ok = {} THEN 0
        ELSE CHOOSE i \in ok : \A j \in ok : RatLt(dist(i), dist(j)) \/ (~RatLt(dist(j), dist(i)) /\ i <= j)

RECURSIVE ScanForNet(_, _, _)
\* Lines 288-292: the loop over amounts from index i on; the index at which it
\* breaks, 0 if it runs to the end.
ScanForNet(amts, expected_net, i) ==
    IF i > Len(amts) THEN 0
    ELSE IF WithinTenPercent(amts[i], expected_net) THEN i
    ELSE ScanForNet(amts, expected_net, i + 1)

\* Lines 288-292.
MatchedNetIndex(amts, expected_net) == ScanForNet(amts, expected_net, 1)

\* A reconciler that also takes two candidates for a set to match in.
TakesMatchPathFromTwo(amts) == Len(amts) >= 2

\* Line 275: len(amounts) >= 3.
TakesMatchPath(amts) == Len(amts) >= 3

\* Lines 277-298.
ReconcileMany(d, amts) ==
    LET gross == amts[Len(amts)]
        expected_net == ExpectedNet(gross, VatRateNum(d))
        k == MatchedNetIndex(amts, expected_net)
        matched == IF k # 0
                   THEN [d EXCEPT !.gross = gross, !.net = amts[k],
                                  !.vat_amount = VatAmount(gross, amts[k])]
                   ELSE [d EXCEPT !.gross = gross]
    IN  IF ~TruthyAmount(matched.net)
        THEN LET net == IF Len(amts) >= 2 THEN amts[Len(amts) - 1] ELSE None
             IN  IF TruthyAmount(net)
                 THEN [matched EXCEPT !.net = net, !.vat_amount = VatAmount(gross, net)]
                 ELSE [matched EXCEPT !.net = net]
        ELSE matched

\* Lines 302-309.
ReconcileSingle(d, amts) ==
    LET gross == amts[1]
        net == ComputedNet(gross, VatRateNum(d))
    IN  [d EXCEPT !.gross = gross, !.net = net, !.vat_amount = VatAmount(gross, net),
                  !.extraction_status = "UNCERTAIN",
                  !.notes = Append(@, "Only one amount found, calculated net/VAT; ")]

\* Lines 275-309.
Reconcile(d, amts) ==
    IF TakesMatchPath(amts) THEN ReconcileMany(d, amts)
    ELSE IF Len(amts) = 1 THEN ReconcileSingle(d, amts)
    ELSE d

(***************************************************************************)
(* Lines 311-319: validation.                                              *)
(***************************************************************************)
Validate(d) ==
    IF TruthyAmount(d.net) /\ TruthyAmount(d.vat_amount) /\ TruthyAmount(d.gross)
    THEN LET calculated_gross == RatAdd(d.net, d.vat_amount)
         IN  IF RatLt(Rat(1, 100), RatAbs(RatSub(calculated_gross, d.gross)))
             THEN [d EXCEPT !.extraction_status = "UNCERTAIN",
                            !.notes = Append(@, "Amount validation failed; ")]
             ELSE d
    ELSE [d EXCEPT !.extraction_status = "MANUAL_REVIEW_NEEDED",
                   !.notes = Append(@, "Missing amount data; ")]

\* Lines 321-323: the handler of the try block.
HandleException(d) ==
    [d EXCEPT !.extraction_status = "MANUAL_REVIEW_NEEDED",
              !.notes = <<"Extraction error: ">>]

(***************************************************************************)
(* extract_invoice_data as a state machine.  Each step of the try block is *)
(* one action; its input is what the matcher returns on the text.          *)
(* The steps that call into pdfplumber, re, datetime or float() may raise; *)
(* reconciliation and validation are arithmetic on floats already parsed   *)
(* and stores into the dict, and raise nothing (1 + vat_rate_num / 100 is  *)
(* at least 1, and int() reads the digits the VAT pattern matched).        *)
(***************************************************************************)
RaisingSteps == {"open", "vendor", "invoice_number", "date", "vat_rate", "currency"}

\* Line 225 and line 325.
Returned == pc \in {"return_no_text", "return"}

EInit ==
    /\ pc = "open"
    /\ data = InitialData
    /\ amounts = <<>>
    /\ raised_at = "none"

\* Lines 216-225: open the PDF, read the text of the first pages, return on none.
OpenPdf ==
    /\ pc = "open"
    /\ \E has_text \in BOOLEAN :
          IF has_text
          THEN /\ pc' = "vendor"
               /\ data' = data
          ELSE /\ pc' = "return_no_text"
               /\ data' = NoTextRecord(data)
    /\ UNCHANGED <<amounts, raised_at, svars, bvars>>

ExtractVendor ==
    /\ pc = "vendor"
    /\ \E vendor \in VendorResults : data' = WithVendor(data, vendor)
    /\ pc' = "invoice_number"
    /\ UNCHANGED <<amounts, raised_at, svars, bvars>>

ExtractInvoiceNumber ==
    /\ pc = "invoice_number"
    /\ \E inv_match \in InvoiceMatches : data' = WithInvoiceNumber(data, inv_match)
    /\ pc' = "date"
    /\ UNCHANGED <<amounts, raised_at, svars, bvars>>

ExtractDate ==
    /\ pc = "date"
    /\ \E dates \in SeqsUpTo(DateParses, MaxDates) : data' = WithDate(data, dates)
    /\ pc' = "vat_rate"
    /\ UNCHANGED <<amounts, raised_at, svars, bvars>>

ExtractVatRate ==
    /\ pc = "vat_rate"
    /\ \E vat_rate_match \in VatRateMatches : data' = WithVatRate(data, vat_rate_match)
    /\ pc' = "currency"
    /\ UNCHANGED <<amounts, raised_at, svars, bvars>>

ExtractAmounts ==
    /\ pc = "currency"
    /\ \E parses \in SeqsUpTo(CurrencyParses, MaxMatches) : amounts' = ScanAmounts(parses)
    /\ pc' = "reconcile"
    /\ UNCHANGED <<data, raised_at, svars, bvars>>

ReconcileAmounts ==
    /\ pc = "reconcile"
    /\ data' = Reconcile(data, amounts)
    /\ pc' = "validate"
    /\ UNCHANGED <<amounts, raised_at, svars, bvars>>

ValidateAmounts ==
    /\ pc = "validate"
    /\ data' = Validate(data)
    /\ pc' = "return"
    /\ UNCHANGED <<amounts, raised_at, svars, bvars>>

\* A step raises and the handler of lines 321-323 runs; line 325 returns.
ExceptionCaught ==
    /\ pc \in RaisingSteps
    /\ raised_at' = pc
    /\ data' = HandleException(data)
    /\ pc' = "return"
    /\ UNCHANGED <<amounts, svars, bvars>>

ENext ==
    \/ OpenPdf
    \/ ExtractVendor
    \/ ExtractInvoiceNumber
    \/ ExtractDate
    \/ ExtractVatRate
    \/ ExtractAmounts
    \/ ReconcileAmounts
    \/ ValidateAmounts
    \/ ExceptionCaught

(***************************************************************************)
(* sanitize_vendor_name (lines 86-114).                                    *)
(***************************************************************************)
UpperLetters ==
    <<"A", "B", "C", "D", "E", "F", "G", "H", "I", "J", "K", "L", "M",
      "N", "O", "P", "Q", "R", "S", "T", "U", "V", "W", "X", "Y", "Z">>

LowerLetters ==
    <<"a", "b", "c", "d", "e", "f", "g", "h", "i", "j", "k", "l", "m",
      "n", "o", "p", "q", "r", "s", "t", "u", "v", "w", "x", "y", "z">>

Digits == {"0", "1", "2", "3", "4", "5", "6", "7", "8", "9"}

Range(f) == {f[x] : x \in DOMAIN f}

\* Lines 97-102: the replacements dict.
Replacement(c) ==
    CASE c = "ä" -> <<"a", "e">> [] c = "Ä" -> <<"a", "e">>
      [] c = "ö" -> <<"o", "e">> [] c = "Ö" -> <<"o", "e">>
      [] c = "ü" -> <<"u", "e">> [] c = "Ü" -> <<"u", "e">>
      [] c = "ß" -> <<"s", "s">>
      [] OTHER -> <<c>>

RECURSIVE ReplaceUmlauts(_)
\* Lines 104-105.
ReplaceUmlauts(s) ==
    IF s = <<>> THEN <<>> ELSE Replacement(Head(s)) \o ReplaceUmlauts(Tail(s))

LowerChar(c) ==
    IF \E k \in 1..26 : UpperLetters[k] = c
    THEN LowerLetters[CHOOSE k \in 1..26 : UpperLetters[k] = c]
    ELSE c

RECURSIVE ToLower(_)
\* Line 108: vendor_name.lower().
ToLower(s) ==
    IF s = <<>> THEN <<>> ELSE <<LowerChar(Head(s))>> \o ToLower(Tail(s))

\* \w, on the characters left after the umlaut replacement.
IsWordChar(c) == c \in Range(UpperLetters) \cup Range(LowerLetters) \cup Digits \cup {"_"}

\* \s
IsSpace(c) == c \in {" ", "\t"}

RECURSIVE StripSpecial(_)
\* Line 111: re.sub(r'[^\w\s-]', '', vendor_name).
StripSpecial(s) ==
    IF s = <<>> THEN <<>>
    ELSE (IF IsWordChar(Head(s)) \/ IsSpace(Head(s)) \/ Head(s) = "-" THEN <<Head(s)>> ELSE <<>>)
            \o StripSpecial(Tail(s))

RECURSIVE CollapseRuns(_, _)
\* Line 112: re.sub(r'[\s-]+', '_', vendor_name); in_run says the character
\* before s belongs to a run already replaced.
CollapseRuns(s, in_run) ==
    IF s = <<>> THEN <<>>
    ELSE IF IsSpace(Head(s)) \/ Head(s) = "-"
         THEN (IF in_run THEN <<>> ELSE <<"_">>) \o CollapseRuns(Tail(s), TRUE)
         ELSE <<Head(s)>> \o CollapseRuns(Tail(s), FALSE)

RECURSIVE StripLeft(_)
StripLeft(s) ==
    IF s # <<>> /\ Head(s) = "_" THEN StripLeft(Tail(s)) ELSE s

RECURSIVE StripRight(_)
StripRight(s) ==
    IF s # <<>> /\ s[Len(s)] = "_" THEN StripRight(SubSeq(s, 1, Len(s) - 1)) ELSE s

\* Line 114: vendor_name.strip('_').
StripUnderscores(s) == StripRight(StripLeft(s))

unknown_vendor ==
    <<"u", "n", "k", "n", "o", "w", "n", "_", "v", "e", "n", "d", "o", "r">>

\* Lines 104-114: what the function returns past its guard.
SanitizedText(name) ==
    StripUnderscores(CollapseRuns(StripSpecial(ToLower(ReplaceUmlauts(name))), FALSE))

\* Lines 93-114.
sanitize_vendor_name(name) ==
    IF name = <<>> THEN unknown_vendor ELSE SanitizedText(name)

\* The characters a vendor name is drawn from: a lowercase and an uppercase
\* letter, two umlauts, the sharp s, a special character, a blank, a hyphen and
\* an underscore.
NameChars == {"m", "S", "ü", "Ö", "ß", "&", " ", "-", "_"}

SInit ==
    /\ s_pc = "call"
    /\ vendor_name \in SeqsUpTo(NameChars, MaxLen) \cup VendorResults \cup {UnknownVendor}
    /\ sanitized = <<>>

Sanitize ==
    /\ s_pc = "call"
    /\ sanitized' = sanitize_vendor_name(vendor_name)
    /\ s_pc' = "done"
    /\ UNCHANGED <<vendor_name, evars, bvars>>

(***************************************************************************)
(* process_invoices (lines 462-529) with append_to_excel (394-438) and     *)
(* move_to_archive (441-459).  A file name is a number; a file in the      *)
(* archive is <<vendor folder, name, counter>>, counter 0 for the plain    *)
(* name and c > 0 for the name with the suffix _c.                         *)
(***************************************************************************)
Files == 1..MaxDocs

\* The orders in which NEW_FOLDER.glob("*.pdf") can list the files S.
GlobOrders(S) ==
    {order \in [1..Cardinality(S) -> S] : \A f \in S : \E k \in 1..Cardinality(S) : order[k] = f}

\* data['vendor'] of a record extract_invoice_data returns.
ReturnedVendors == VendorResults \cup {UnknownVendor}

RECURSIVE FreeCounter(_, _, _, _)
\* Lines 450-456: the first counter, from `counter` on, whose destination is free.
FreeCounter(files, folder, name, counter) ==
    IF <<folder, name, counter>> \in files
    THEN FreeCounter(files, folder, name, counter + 1)
    ELSE counter

\* Lines 443-456: the destination of move_to_archive.
Destination(files, name, vendor) ==
    LET folder == sanitize_vendor_name(vendor)
    IN  <<folder, name, FreeCounter(files, folder, name, 0)>>

BInit ==
    /\ b_pc = "start"
    /\ new_folder \in SUBSET Files
    /\ sheet \in SUBSET Files
    /\ archive \in {{}, {<<unknown_vendor, 1, 0>>}}
    /\ pdf_files = <<>>
    /\ existing_filenames = {}
    /\ pos = 0
    /\ b_vendor = <<>>
    /\ processed_count = 0
    /\ skipped_count = 0
    /\ error_count = 0

\* Lines 465-485: list the PDFs, return if there are none, read the sheet.
StartRun ==
    /\ b_pc = "start"
    /\ IF new_folder = {}
       THEN /\ b_pc' = "done"
            /\ UNCHANGED <<pdf_files, existing_filenames, pos>>
       ELSE /\ b_pc' = "loop"
            /\ pdf_files' \in GlobOrders(new_folder)
            /\ existing_filenames' = sheet
            /\ pos' = 1
    /\ UNCHANGED <<new_folder, sheet, archive, b_vendor, processed_count,
                   skipped_count, error_count, evars, svars>>

\* Lines 487-494 and 522-529: the head of the loop; the summary after it.
NextPdf ==
    /\ b_pc = "loop"
    /\ IF pos > Len(pdf_files)
       THEN /\ b_pc' = "done"
            /\ UNCHANGED <<pos, skipped_count>>
       ELSE IF pdf_files[pos] \in existing_filenames
       THEN /\ skipped_count' = skipped_count + 1
            /\ pos' = pos + 1
            /\ UNCHANGED b_pc
       ELSE /\ b_pc' = "extract"
            /\ UNCHANGED <<pos, skipped_count>>
    /\ UNCHANGED <<new_folder, sheet, archive, pdf_files, existing_filenames, b_vendor,
                   processed_count, error_count, evars, svars>>

\* Line 498: extract_invoice_data returns a record; it raises nothing, its
\* own handler (lines 321-323) catches what its steps raise.
ExtractData ==
    /\ b_pc = "extract"
    /\ b_vendor' \in ReturnedVendors
    /\ b_pc' = "append"
    /\ UNCHANGED <<new_folder, sheet, archive, pdf_files, existing_filenames, pos,
                   processed_count, skipped_count, error_count, evars, svars>>

\* Line 501: append_to_excel saves the row.
AppendToExcel ==
    /\ b_pc = "append"
    /\ sheet' = sheet \cup {pdf_files[pos]}
    /\ b_pc' = "archive"
    /\ UNCHANGED <<new_folder, archive, pdf_files, existing_filenames, pos, b_vendor,
                   processed_count, skipped_count, error_count, evars, svars>>

\* Lines 504-514: move_to_archive moves the file; the results are logged.
MoveToArchive ==
    /\ b_pc = "archive"
    /\ archive' = archive \cup {Destination(archive, pdf_files[pos], b_vendor)}
    /\ new_folder' = new_folder \ {pdf_files[pos]}
    /\ processed_count' = processed_count + 1
    /\ pos' = pos + 1
    /\ b_pc' = "loop"
    /\ UNCHANGED <<sheet, pdf_files, existing_filenames, b_vendor,
                   skipped_count, error_count, evars, svars>>

\* A handler that counts the error and lets the exception end the loop.
CatchAndStop ==
    /\ error_count' = error_count + 1
    /\ b_pc' = "aborted"
    /\ UNCHANGED pos

\* Lines 516-520: the handler of the loop body; the loop goes on.
CatchAndContinue ==
    /\ error_count' = error_count + 1
    /\ pos' = pos + 1
    /\ b_pc' = "loop"

\* append_to_excel raises (the workbook cannot be loaded or saved): no row.
AppendRaises ==
    /\ b_pc = "append"
    /\ CatchAndContinue
    /\ UNCHANGED <<new_folder, sheet, archive, pdf_files, existing_filenames, b_vendor,
                   processed_count, skipped_count, evars, svars>>

\* move_to_archive raises (mkdir or shutil.move fails): the file stays in ./new.
MoveRaises ==
    /\ b_pc = "archive"
    /\ CatchAndContinue
    /\ UNCHANGED <<new_folder, sheet, archive, pdf_files, existing_filenames, b_vendor,
                   processed_count, skipped_count, evars, svars>>

BNext ==
    \/ StartRun
    \/ NextPdf
    \/ ExtractData
    \/ AppendToExcel
    \/ MoveToArchive
    \/ AppendRaises
    \/ MoveRaises

(***************************************************************************)
(* A sequence of runs of process_invoices: the first starts with an empty  *)
(* sheet and an empty archive, and each later one finds ./new, the sheet   *)
(* and the archive as the run before it left them.  Nobody else adds or    *)
(* removes a file or a row.                                                *)
(***************************************************************************)
RInit ==
    /\ b_pc = "start"
    /\ new_folder \in SUBSET Files
    /\ sheet = {}
    /\ archive = {}
    /\ pdf_files = <<>>
    /\ existing_filenames = {}
    /\ pos = 0
    /\ b_vendor = <<>>
    /\ processed_count = 0
    /\ skipped_count = 0
    /\ error_count = 0

\* Lines 476 and 529 return; line 649 calls process_invoices again, with
\* its locals fresh (lines 483-485 set the counts to 0).
CallAgain ==
    /\ b_pc = "done"
    /\ b_pc' = "start"
    /\ pdf_files' = <<>>
    /\ existing_filenames' = {}
    /\ pos' = 0
    /\ b_vendor' = <<>>
    /\ processed_count' = 0
    /\ skipped_count' = 0
    /\ error_count' = 0
    /\ UNCHANGED <<new_folder, sheet, archive, evars, svars>>

RunsNext ==
    \/ StartRun
    \/ NextPdf
    \/ ExtractData
    \/ AppendToExcel
    \/ MoveToArchive
    \/ AppendRaises
    \/ MoveRaises
    \/ CallAgain

(***************************************************************************)
(* The three machines share one state; a specification runs one of them    *)
(* and leaves the others where they stand.                                 *)
(***************************************************************************)
EIdle ==
    /\ pc = "idle"
    /\ data = InitialData
    /\ amounts = <<>>
    /\ raised_at = "none"

SIdle ==
    /\ s_pc = "idle"
    /\ vendor_name = <<>>
    /\ sanitized = <<>>

BIdle ==
    /\ b_pc = "idle"
    /\ new_folder = {}
    /\ sheet = {}
    /\ archive = {}
    /\ pdf_files = <<>>
    /\ existing_filenames = {}
    /\ pos = 0
    /\ b_vendor = <<>>
    /\ processed_count = 0
    /\ skipped_count = 0
    /\ error_count = 0

SNext == Sanitize

Init == EInit /\ SIdle /\ BIdle

\* One pass of extract_invoice_data over one document.
Spec == Init /\ [][ENext]_vars

SanitizeInit == EIdle /\ SInit /\ BIdle

\* One call of sanitize_vendor_name.
SanitizeSpec == SanitizeInit /\ [][SNext]_vars

BatchInit == EIdle /\ SIdle /\ BInit

\* One run of process_invoices.
BatchSpec == BatchInit /\ [][BNext]_vars

RunsInit == EIdle /\ SIdle /\ RInit

\* Run after run of process_invoices.
RunsSpec == RunsInit /\ [][RunsNext]_vars

(***************************************************************************)
(* Properties of extract_invoice_data, checked under Spec.                 *)
(***************************************************************************)
HasNote(fragment) == \E k \in 1..Len(data.notes) : data.notes[k] = fragment

\* The pass reached line 325 through validation: no early return, no exception.
Validated == pc = "return" /\ raised_at = "none"

\* Reconciliation (lines 275-309) has run on the scanned candidates.
Reconciled == pc \in {"validate", "return"} /\ raised_at = "none"

AllAmountsAssigned ==
    data.net # None /\ data.vat_amount # None /\ data.gross # None

\* C1: within one pass no step sets extraction_status to a tier below the one
\* it had: OK < UNCERTAIN < MANUAL_REVIEW_NEEDED only ever rises.
C1_StatusNeverLowered ==
    [][Rank(data'.extraction_status) >= Rank(data.extraction_status)]_vars

\* C1 witness: a pass that went OK -> UNCERTAIN (vendor unclear) and then
\* UNCERTAIN -> MANUAL_REVIEW_NEEDED (missing amounts) has returned.
C1_Witness ==
    /\ Validated
    /\ data.extraction_status = "MANUAL_REVIEW_NEEDED"
    /\ data.notes[1] = "Vendor name unclear; "
    /\ HasNote("Missing amount data; ")

\* C2: the returned status is MANUAL_REVIEW_NEEDED if and only if there was no
\* text, or one of net / vat_amount / gross is unassigned, or an exception was
\* caught; when all three amounts are assigned, 'Missing amount data' is not
\* added.
C2_ManualExactlyWhenListed ==
    Returned =>
        /\ data.extraction_status = "MANUAL_REVIEW_NEEDED"
              <=> (pc = "return_no_text" \/ ~AllAmountsAssigned \/ raised_at # "none")
        /\ AllAmountsAssigned => ~HasNote("Missing amount data; ")

\* C3 as stated: every returned record has a non-empty vendor.
C3_VendorNeverUnset == Returned => data.vendor # <<>>

\* C3 amended: a returned record has a non-empty vendor, the identified line or
\* 'Unknown Vendor', exactly when the vendor step completed; on the no-text
\* return and when the exception was raised by the open or the vendor step the
\* vendor is None.
C3_VendorSetOnceVendorStepRan ==
    Returned =>
        IF pc = "return_no_text" \/ raised_at \in {"open", "vendor"}
        THEN data.vendor = None
        ELSE data.vendor # <<>> /\ data.vendor \in (VendorResults \ {None}) \cup {UnknownVendor}

\* C3 witness: an exception caught after the vendor step left the sentinel.
C3_Witness ==
    /\ pc = "return"
    /\ raised_at = "date"
    /\ data.vendor = UnknownVendor

IsPrefix(s, t) == Len(s) <= Len(t) /\ SubSeq(t, 1, Len(s)) = s

\* C4: reason fragments are append-only: every step leaves the fragments
\* already in notes in place and in order, the exception handler included.
C4_NotesAppendOnly == [][IsPrefix(data.notes, data'.notes)]_vars

\* C5: a returned record with net, vat_amount and gross all present has
\* net + vat_amount within 0.01 of gross, or else status at least UNCERTAIN
\* with the 'Amount validation failed' reason.
C5_SumMatchesOrFlagged ==
    (Returned /\ AllAmountsAssigned) =>
        \/ RatLe(RatAbs(RatSub(RatAdd(data.net, data.vat_amount), data.gross)), Rat(1, 100))
        \/ /\ Rank(data.extraction_status) >= 1
           /\ HasNote("Amount validation failed; ")

\* C5 witness: a record matched on the three-candidate path, VAT not zero.
C5_Witness ==
    /\ Validated
    /\ Len(amounts) >= 3
    /\ AllAmountsAssigned
    /\ data.vat_amount[1] > 0
    /\ data.net # amounts[Len(amounts) - 1]

\* C6: with exactly 0 or exactly 2 candidates reconciliation assigns none of
\* net, vat_amount, gross, and the record returns MANUAL_REVIEW_NEEDED with
\* the 'Missing amount data' reason, whatever the other fields were.
C6_ZeroOrTwoCandidatesUnassigned ==
    (Reconciled /\ Len(amounts) \in {0, 2}) =>
        /\ data.net = None /\ data.vat_amount = None /\ data.gross = None
        /\ pc = "return" =>
              /\ data.extraction_status = "MANUAL_REVIEW_NEEDED"
              /\ HasNote("Missing amount data; ")

\* C6 witness: two candidates, every other field found.
C6_Witness ==
    /\ Validated
    /\ Len(amounts) = 2
    /\ data.notes = <<"Missing amount data; ">>

\* C7: with exactly one candidate c: gross = c, net = gross / (1 + rate/100),
\* vat_amount = gross - net, 'Only one amount found' is appended and the
\* returned status is at least UNCERTAIN.
C7_SingleCandidate ==
    (Reconciled /\ Len(amounts) = 1) =>
        LET rate == VatRateNum(data)
        IN  /\ data.gross = amounts[1]
            /\ data.net # None
            /\ data.net[1] * data.gross[2] * (100 + rate) = 100 * data.gross[1] * data.net[2]
            /\ data.vat_amount # None
            /\ RatAdd(data.net, data.vat_amount) = data.gross
            /\ HasNote("Only one amount found, calculated net/VAT; ")
            /\ Rank(data.extraction_status) >= 1

\* C7 witness: 119.00 at 19% gives net 100.00 and VAT 19.00, status UNCERTAIN.
C7_Witness ==
    /\ Validated
    /\ amounts = <<Rat(119, 1)>>
    /\ data.net = Rat(100, 1)
    /\ data.vat_amount = Rat(19, 1)
    /\ data.extraction_status = "UNCERTAIN"

C9_KeyNeverEmpty ==
    s_pc = "done" =>
        /\ sanitized # <<>>
        /\ SanitizedText(vendor_name) = <<>> => sanitized = unknown_vendor

(***************************************************************************)
(* Properties of process_invoices, checked under BatchSpec.                *)
(***************************************************************************)
\* The positions of process_invoices; at each but "done" a step can be taken.
BatchPositions == {"start", "loop", "extract", "append", "archive", "done"}

\* What is left of the run: four steps for each document from pos on, less the
\* steps taken on pdf_files[pos].
StepsLeft ==
    CASE b_pc = "start"   -> 4 * Cardinality(new_folder) + 8
      [] b_pc = "loop"    -> 4 * (Len(pdf_files) + 1 - pos) + 3
      [] b_pc = "extract" -> 4 * (Len(pdf_files) + 1 - pos) + 2
      [] b_pc = "append"  -> 4 * (Len(pdf_files) + 1 - pos) + 1
      [] b_pc = "archive" -> 4 * (Len(pdf_files) + 1 - pos)
      [] b_pc = "done"    -> 0

\* C8: a fault in recording or archiving one document never aborts the batch:
\* the run stays inside the function, every step brings its end nearer (so the
\* run ends), and it ends past the last pending document with
\* processed + skipped + errors equal to the number of pending documents.
C8_BatchRunsToTheEnd ==
    /\ [](b_pc \in BatchPositions /\ StepsLeft >= 0)
    /\ [][StepsLeft' < StepsLeft]_vars
    /\ [](b_pc = "done" =>
            /\ pos = (IF pdf_files = <<>> THEN 0 ELSE Len(pdf_files) + 1)
            /\ processed_count + skipped_count + error_count = Len(pdf_files))

\* C8 witness: the first document failed in archiving, the second was
\* processed after it.
C8_Witness ==
    /\ b_pc = "done"
    /\ Len(pdf_files) = 2
    /\ error_count = 1
    /\ processed_count = 1
    /\ pdf_files[1] \in new_folder
    /\ pdf_files[1] \in sheet
    /\ pdf_files[2] \notin new_folder

(***************************************************************************)
(* Properties of process_invoices over several runs, checked under         *)
(* RunsSpec.                                                               *)
(***************************************************************************)
\* C11: after each run every document whose filename is recorded in the sheet
\* has been moved out of ./new into the archive: no document is recorded and
\* still pending.
C11_RecordedIsArchived ==
    b_pc = "done" =>
        \A f \in sheet : f \notin new_folder /\ (\E a \in archive : a[2] = f)

====
